---- MODULE Spec2Model ----
(***************************************************************************)
(* Verification model of the metrics collection subsystem of the GitHub   *)
(* dashboard: the two snapshot stores (SQLite, Neon/Postgres) behind the   *)
(* DatabaseAdapter, the MetricsCollector and the DataCollectionScheduler.  *)
(*                                                                         *)
(* Time is counted in hours since an arbitrary UTC midnight (the code      *)
(* works in milliseconds; every duration the model needs is a whole number *)
(* of hours, so the scale changes no comparison).  A calendar date         *)
(* 'YYYY-MM-DD' is represented by its day number.                          *)
(***************************************************************************)
EXTENDS Integers, Sequences, FiniteSets, TLC

\* ------------------------------------------------------------------ bounds
MaxTicks == 1
MaxInserts == 2
MaxRuns == 2
MaxUpdates == 1
MaxCacheTicks == 2
MaxPagesArg == 2
MaxFileTicks == 3

\* --------------------------------------------------------------- constants
HoursPerDay == 24
HoursPerYear == 8760
\* How far the clock may jump in one step: half a day, or 366 days
ClockSteps == {12, HoursPerYear + HoursPerDay}
\* retentionDays arguments a caller passes (365 is the default)
RetentionInputs == {365, 730}
\* days arguments of getTimeRangeMetrics
DaysInputs == {1, 30}

\* ------------------------------------------------------- JavaScript values
\* A JavaScript value that can arrive in a count field.  typeof is "number"
\* for finite numbers, NaN and Infinity; "undefined" for a missing field.
Num(n) == [k |-> "number", v |-> n]
NaNV == [k |-> "NaN", v |-> 0]
InfV == [k |-> "Infinity", v |-> 0]
NegInfV == [k |-> "-Infinity", v |-> 0]
Undef == [k |-> "undefined", v |-> 0]

TypeofNumber(x) == x.k \in {"number", "NaN", "Infinity", "-Infinity"}
JsIsNaN(x) == x.k = "NaN"
\* x < 0 in JavaScript (false for NaN and +Infinity)
JsNegative(x) == (x.k = "number" /\ x.v < 0) \/ x.k = "-Infinity"
\* a > b in JavaScript (any comparison with NaN or undefined is false)
JsGreater(a, b) ==
  CASE a.k = "number" /\ b.k = "number" -> a.v > b.v
    [] a.k = "Infinity" /\ b.k \in {"number", "-Infinity"} -> TRUE
    [] a.k = "number" /\ b.k = "-Infinity" -> TRUE
    [] OTHER -> FALSE
IsFinite(x) == x.k = "number"
\* a - b in JavaScript
JsSub(a, b) ==
  CASE a.k = "number" /\ b.k = "number" -> Num(a.v - b.v)
    [] a.k = "Infinity" /\ b.k \in {"number", "-Infinity"} -> InfV
    [] a.k = "-Infinity" /\ b.k \in {"number", "Infinity"} -> NegInfV
    [] a.k = "number" /\ b.k = "Infinity" -> NegInfV
    [] a.k = "number" /\ b.k = "-Infinity" -> InfV
    [] OTHER -> NaNV
\* a || b in JavaScript: 0, NaN and undefined are falsy
JsOr(a, b) ==
  IF (a.k = "number" /\ a.v # 0) \/ a.k \in {"Infinity", "-Infinity"} THEN a ELSE b

\* ---------------------------------------------------------------- records
CountFields == {"stars", "forks", "contributors", "commits", "releases",
                "open_issues", "closed_issues", "open_prs", "closed_prs",
                "merged_prs"}

\* The answer of GitHubAPI.getAllTimeRepositoryStats
BaseStats ==
  [stars |-> Num(1), forks |-> Num(1), contributors |-> Num(1),
   commits |-> Num(1), releases |-> Num(1),
   issues |-> [open |-> Num(1), closed |-> Num(1)],
   pullRequests |-> [open |-> Num(1), closed |-> Num(1), merged |-> Num(1)]]

TopFields == {"stars", "forks", "contributors", "commits", "releases"}
BadValues == {Num(-1), NaNV, Undef}
OtherValues == {Num(0), Num(2), InfV}

\* Upstream answers the model draws from: the base answer, the base answer
\* with one field made bad (every field in turn), and the base answer with
\* stars, closed PRs or merged PRs changed to another number.
StatsInputs ==
  {BaseStats}
  \cup {[BaseStats EXCEPT ![f] = v] : f \in TopFields, v \in BadValues}
  \cup {[BaseStats EXCEPT !.issues[f] = v] : f \in {"open", "closed"}, v \in BadValues}
  \cup {[BaseStats EXCEPT !.pullRequests[f] = v] :
          f \in {"open", "closed", "merged"}, v \in BadValues}
  \cup {[BaseStats EXCEPT !.stars = v] : v \in OtherValues}
  \cup {[BaseStats EXCEPT !.pullRequests[f] = v] :
          f \in {"closed", "merged"}, v \in OtherValues}

\* An upstream response: <<>> when the call rejects, <<stats>> otherwise
ApiResponses == {<<>>} \cup {<<s>> : s \in StatsInputs}

VARIABLES dbType, rows, nextId, now, nTicks, cli, sweep,
          config, stats, metricsJob, cleanupJob, cronJobs, run, nRuns, nUpdates,
          cache, dateNow, got, nCacheTicks, fetch,
          req, file, clock, nFileTicks, post, dash

schedVars == <<config, stats, metricsJob, cleanupJob, cronJobs, run, nRuns, nUpdates>>

\* The metrics side: stores, collector, scheduler
coreVars == <<dbType, rows, nextId, now, nTicks, cli, sweep, schedVars>>

\* The request-level cache
cacheVars == <<cache, dateNow, got, nCacheTicks>>

\* The dashboard read path
\* One fetchAllPages call
pageVars == <<fetch>>

\* One getCachedOrFetch call of the dashboard route
readVars == <<req>>

\* The file-backed dashboard cache, its clock, and one request of each of
\* the two routes that use it
fileVars == <<file, clock, nFileTicks, post, dash>>

clientVars == <<cacheVars, pageVars, readVars, fileVars>>

vars == <<coreVars, clientVars>>

\* date: now.toISOString().split('T')[0]
DateOf(t) == t \div HoursPerDay

\* ------------------------------------------------------------- the cache
\* Date.now() and ttl are counted in seconds (the code works in
\* milliseconds; every duration the model needs is a whole number of seconds)
SecondsPerMinute == 60
\* How far Date.now() may advance in one step
CacheClockSteps == {1, SecondsPerMinute}
Keys == {"repo:o/r", "org:o"}
Payloads == {"v1", "v2"}
\* ttlMinutes arguments (5 is the default)
TtlInputs == {1, 5}

\* The answer of the last get or has call; seq tells successive calls apart
NoGet == [op |-> "none", key |-> "", result |-> <<>>, seq |-> 0]

\* One getCachedOrFetch call: where it stands, its arguments, how many
\* times it called fetchFn, how it ended and what it returned
NoReq == [pc |-> "idle", key |-> "", ttlMinutes |-> 0, calls |-> 0,
          outcome |-> "none", result |-> <<>>, seq |-> 0]

ExpiredAtTtl(entry, at) == at - entry.timestamp >= entry.ttl

\* MemoryCache's test "expired": Date.now() - entry.timestamp > entry.ttl
Expired(entry, at) == at - entry.timestamp > entry.ttl

\* get(key) as a function of the cache: the value returned (<<>> for null)
\* and the cache it leaves (an expired entry is deleted)
GetResult(c, key, at) ==
  IF c[key] = <<>> \/ Expired(c[key][1], at) THEN <<>> ELSE <<c[key][1].data>>
AfterGet(c, key, at) ==
  IF c[key] # <<>> /\ Expired(c[key][1], at) THEN [c EXCEPT ![key] = <<>>] ELSE c

\* --------------------------------------------- the file-backed cache
MinutesPerHour == 60
\* How far the clock may advance in one step, in minutes
FileClockSteps == {1, MinutesPerHour - 1}
\* Dashboard data as fetched from upstream
DashboardData == {"d1", "d2"}

\* getLastTopOfHourUTC() at time t
LastTopOfHour(t) == t - (t % MinutesPerHour)

\* SimpleCache.get(): the data when the file exists and was written at or
\* after the last top of the hour, else null (<<>>)
FileGet(f, t) ==
  IF f = <<>> THEN <<>>
  ELSE IF f[1].lastRefresh >= LastTopOfHour(t) THEN <<f[1].data>> ELSE <<>>

\* SimpleCache.canRefresh(): true without a file
FileCanRefresh(f, t) ==
  IF f = <<>> THEN TRUE ELSE f[1].lastRefresh < LastTopOfHour(t)

\* SimpleCache.set(data): a write error is caught and logged
FileSet(f, data, t, wrOk) ==
  IF wrOk THEN <<[data |-> data, lastRefresh |-> t]>> ELSE f

\* One POST /api/refresh request and one GET /api/dashboard request: where
\* each stands and what it answered last; seq tells successive answers apart
NoPost == [pc |-> "idle", status |-> 0, seq |-> 0]
NoDash == [pc |-> "idle", status |-> 0, cached |-> FALSE, body |-> <<>>, seq |-> 0]

\* ------------------------------------------------------------ the paging
DefaultMaxPages == 10
DefaultPerPage == 100
\* maxPages arguments; <<>> stands for an omitted argument
MaxPagesInputs == {<<>>} \cup {<<n>> : n \in 0..MaxPagesArg}
\* options.per_page; <<>> stands for an omitted option
PerPageInputs == {<<>>, <<1>>, <<2>>}

\* What fetchGitHub can resolve to for page p: a list of up to perPage
\* items (the endpoint honours per_page), or a value that is not a list.
\* An item is named by its page and its place in it.
PageLengths(perPage) == {0, 1, perPage - 1, perPage} \cap (0..perPage)
PageResponses(p, perPage) ==
  {[list |-> TRUE, items |-> [i \in 1..n |-> <<p, i>>]] : n \in PageLengths(perPage)}
    \cup {[list |-> FALSE, items |-> <<>>]}

\* fetchAllPages' locals (page, results, perPage, maxPages), where it is
\* suspended, and a record of the requests issued and the answers received
NoFetch ==
  [pc |-> "idle", maxPages |-> 0, perPage |-> 0, page |-> 0, results |-> <<>>,
   requests |-> <<>>, pages |-> <<>>]

MorePagesInclusive(page, maxPages) == page <= maxPages + 1

\* while (page <= maxPages)
MorePages(page, maxPages) == page <= maxPages

ShortPageOrFull(data, perPage) == Len(data) <= perPage

\* if (data.length < perPage) break
ShortPage(data, perPage) == Len(data) < perPage

\* The head of the while loop: request the next page or return
PageLoop(f) ==
  IF MorePages(f.page, f.maxPages)
    THEN [f EXCEPT !.pc = "awaiting", !.requests = Append(@, f.page)]
    ELSE [f EXCEPT !.pc = "done"]

\* ------------------------------------------------------------ the stores
NewRow(id, m, t) ==
  [id |-> id, timestamp |-> m.timestamp, date |-> m.date,
   stars |-> m.stars, forks |-> m.forks, contributors |-> m.contributors,
   open_issues |-> m.open_issues, closed_issues |-> m.closed_issues,
   open_prs |-> m.open_prs, closed_prs |-> m.closed_prs,
   merged_prs |-> m.merged_prs, commits |-> m.commits,
   releases |-> m.releases, created_at |-> t]

\* The rows an INSERT OR REPLACE of a row with key id replaces: the only
\* uniqueness constraint of the table is PRIMARY KEY (id).
SqliteConflicts(t, id, m) == {r \in t : r.id = id}

\* MetricsDatabase.storeMetrics: the table after the statement
SqliteStoreMetrics(t, id, m, at) ==
  (t \ SqliteConflicts(t, id, m)) \cup {NewRow(id, m, at)}

\* The INTEGER NOT NULL columns of the Postgres table take integers only
NeonColumnsAccept(m) == \A f \in CountFields : m[f].k = "number"

\* NeonDatabase.storeMetrics: the table after the plain INSERT
NeonStoreMetrics(t, id, m, at) == t \cup {NewRow(id, m, at)}

\* DatabaseAdapter.storeMetrics: <<>> when the backend throws, <<table>> else
AdapterStoreMetrics(t, id, m, at, dbOk) ==
  IF dbType = "postgresql"
    THEN IF dbOk /\ NeonColumnsAccept(m)
           THEN <<NeonStoreMetrics(t, id, m, at)>> ELSE <<>>
    ELSE IF dbOk THEN <<SqliteStoreMetrics(t, id, m, at)>> ELSE <<>>

\* getLatestMetrics: ORDER BY timestamp DESC LIMIT 1.  Rows with equal
\* timestamps may come in either order, so every maximal row is a possible
\* answer; <<>> stands for null.
LatestResults(t) ==
  IF t = {} THEN {<<>>}
  ELSE {<<r>> : r \in {x \in t : \A y \in t : y.timestamp <= x.timestamp}}

\* MetricsDatabase.cleanupOldMetrics: DELETE WHERE timestamp < two years ago
\* (setFullYear(year - 2), taken as two common years)
SqliteCleanupOldMetrics(t, at) ==
  {r \in t : ~(r.timestamp < at - 2 * HoursPerYear)}

\* NeonDatabase.cleanupOldData: DELETE WHERE date < CURRENT_DATE - N days
NeonCleanupOldData(t, at, retentionDays) ==
  {r \in t : ~(r.date < DateOf(at) - retentionDays)}

\* NeonDatabase.cleanupOldMetrics
NeonCleanupOldMetrics(t, at) == NeonCleanupOldData(t, at, 365 * 2)

\* DatabaseAdapter.cleanupOldMetrics: the table afterwards
AdapterCleanupOldMetrics(t, at) ==
  IF dbType = "postgresql" THEN NeonCleanupOldMetrics(t, at)
  ELSE SqliteCleanupOldMetrics(t, at)

SetMax(S) == CHOOSE x \in S : \A y \in S : y <= x
SetMin(S) == CHOOSE x \in S : \A y \in S : x <= y

\* MetricsDatabase.getTimeRangeMetrics(days) at time at: every result the
\* query can give; <<>> stands for null.  previous is <<>> when no row is
\* older than the cutoff, and change is then undefined (<<>>).
SqliteGetTimeRangeMetrics(t, at, days) ==
  LET startDate == at - days * HoursPerDay
  IN {IF cur = <<>> THEN <<>>
      ELSE <<[current |-> cur[1], previous |-> prev,
              change |-> IF prev # <<>>
                           THEN <<[f \in CountFields |-> JsSub(cur[1][f], prev[1][f])]>>
                           ELSE <<>>]>> :
        cur \in LatestResults({r \in t : r.timestamp >= startDate}),
        prev \in LatestResults({r \in t : r.timestamp < startDate})}

TrendFields == {"stars", "forks", "contributors"}

\* NeonDatabase.getTimeRangeMetrics(days): only stars, forks and
\* contributors are returned; previous falls back to current, and change
\* is current - (previous?.f || current.f)
NeonGetTimeRangeMetrics(t, at, days) ==
  LET startDate == at - days * HoursPerDay
  IN {IF cur = <<>> THEN <<>>
      ELSE <<[current |-> [f \in TrendFields |-> cur[1][f]],
              previous |-> IF prev # <<>> THEN <<[f \in TrendFields |-> prev[1][f]]>>
                           ELSE <<[f \in TrendFields |-> cur[1][f]]>>,
              change |-> <<[f \in TrendFields |->
                 JsSub(cur[1][f],
                       JsOr(IF prev # <<>> THEN prev[1][f] ELSE Undef, cur[1][f]))]>>]>> :
        cur \in LatestResults({r \in t : r.timestamp >= startDate}),
        prev \in LatestResults({r \in t : r.timestamp < startDate})}

\* DatabaseAdapter.getTimeRangeMetrics
AdapterGetTimeRangeMetrics(t, at, days) ==
  IF dbType = "postgresql" THEN NeonGetTimeRangeMetrics(t, at, days)
  ELSE SqliteGetTimeRangeMetrics(t, at, days)

UnhealthyStatus ==
  [isHealthy |-> FALSE, lastCollection |-> <<>>, recordCount |-> 0,
   oldestRecord |-> <<>>, newestRecord |-> <<>>]

\* DatabaseAdapter.getHealthStatus on SQLite: built from getLatestMetrics
\* and getAvailableDates (SELECT DISTINCT date ... ORDER BY date DESC);
\* oldestRecord is the first element of that list, newestRecord the last
SqliteGetHealthStatus(t) ==
  LET availableDates == {r.date : r \in t}
  IN {IF latest = <<>> \/ availableDates = {} THEN UnhealthyStatus
      ELSE [isHealthy |-> TRUE, lastCollection |-> <<latest[1].created_at>>,
            recordCount |-> Cardinality(availableDates),
            oldestRecord |-> <<SetMax(availableDates)>>,
            newestRecord |-> <<SetMin(availableDates)>>] :
        latest \in LatestResults(t)}

\* NeonDatabase.getHealthStatus: COUNT(*), MIN(date), MAX(date),
\* MAX(created_at)
NeonGetHealthStatus(t) ==
  {IF Cardinality(t) = 0 THEN UnhealthyStatus
   ELSE [isHealthy |-> TRUE,
         lastCollection |-> <<SetMax({r.created_at : r \in t})>>,
         recordCount |-> Cardinality(t),
         oldestRecord |-> <<SetMin({r.date : r \in t})>>,
         newestRecord |-> <<SetMax({r.date : r \in t})>>]}

\* DatabaseAdapter.getHealthStatus: the possible answers; with the database
\* out of reach both backends catch the error and answer the zero status
AdapterGetHealthStatus(t, dbOk) ==
  IF ~dbOk THEN {UnhealthyStatus}
  ELSE IF dbType = "postgresql" THEN NeonGetHealthStatus(t)
  ELSE SqliteGetHealthStatus(t)

\* --------------------------------------------------------- the collector
\* The metrics object built in collectCurrentMetrics at time t
BuildMetrics(s, t) ==
  [timestamp |-> t, date |-> DateOf(t),
   stars |-> s.stars, forks |-> s.forks, contributors |-> s.contributors,
   commits |-> s.commits, releases |-> s.releases,
   open_issues |-> s.issues.open, closed_issues |-> s.issues.closed,
   open_prs |-> s.pullRequests.open, closed_prs |-> s.pullRequests.closed,
   merged_prs |-> s.pullRequests.merged]

\* validateMetrics without its logical consistency check
validateMetricsNoConsistency(m) ==
  /\ \A f \in CountFields : TypeofNumber(m[f]) /\ ~JsIsNaN(m[f])
  /\ \A f \in CountFields : ~JsNegative(m[f])

\* MetricsCollector.validateMetrics
validateMetrics(m) ==
  /\ \A f \in CountFields : TypeofNumber(m[f]) /\ ~JsIsNaN(m[f])
  /\ \A f \in CountFields : ~JsNegative(m[f])
  /\ ~JsGreater(m.merged_prs, m.closed_prs)

\* How one collectCurrentMetrics call ends, given the upstream response and
\* whether the database is reachable.
CollectOutcome(resp, dbOk) ==
  IF resp = <<>> THEN "apiError"
  ELSE IF ~validateMetrics(BuildMetrics(resp[1], now)) THEN "invalid"
  ELSE IF AdapterStoreMetrics(rows, nextId, BuildMetrics(resp[1], now), now, dbOk) = <<>>
    THEN "dbError"
  ELSE "stored"

\* The effect of that call on the table
CollectStore(resp, dbOk) ==
  IF CollectOutcome(resp, dbOk) = "stored"
    THEN /\ rows' = AdapterStoreMetrics(rows, nextId, BuildMetrics(resp[1], now), now, dbOk)[1]
         /\ nextId' = nextId + 1
    ELSE UNCHANGED <<rows, nextId>>

\* The sub-queries of the collectCurrentMetrics of metrics-collector.ts and
\* the count fields computed from each
SubQueries == {"getRepository", "getAllRepositoryContributors",
               "getRepositoryIssues", "getRepositoryPullRequests",
               "getRepositoryReleases"}
SubQueryFields(q) ==
  CASE q = "getRepository" -> {"stars", "forks"}
    [] q = "getAllRepositoryContributors" -> {"contributors", "commits"}
    [] q = "getRepositoryIssues" -> {"open_issues", "closed_issues"}
    [] q = "getRepositoryPullRequests" -> {"open_prs", "closed_prs", "merged_prs"}
    [] q = "getRepositoryReleases" -> {"releases"}

\* Which sub-queries reject in one collection: none, one, or all of them
RejectedInputs == {{}} \cup {{q} : q \in SubQueries} \cup {SubQueries}

\* await Promise.all([...]): rejects as soon as one sub-query rejects,
\* otherwise resolves with all the results (s)
PromiseAll(rejected, s) == IF rejected # {} THEN <<>> ELSE <<s>>

\* --------------------------------------------------------- the scheduler
\* Collection runs that may be in progress at once (timer firings and
\* collectNow calls are not serialised)
Runs == {1, 2}

\* The configuration set by the constructor
DefaultConfig ==
  [metricsInterval |-> "0 */6 * * *", cleanupInterval |-> "0 2 * * 0",
   retentionDays |-> 365, maxRetries |-> 3, retryDelay |-> 5000,
   backoffMultiplier |-> 2, enableErrorNotifications |-> TRUE,
   errorThreshold |-> 5]

ConfigKeys == DOMAIN DefaultConfig

\* updateConfig arguments the model draws from
ConfigUpdates ==
  {[k \in {"maxRetries"} |-> 1],
   [maxRetries |-> 0, errorThreshold |-> 1],
   [errorThreshold |-> 2, enableErrorNotifications |-> TRUE],
   [errorThreshold |-> 1, enableErrorNotifications |-> FALSE],
   [retryDelay |-> 1000, backoffMultiplier |-> 3, retentionDays |-> 730,
    metricsInterval |-> "0 * * * *"]}

\* The number of running cron timers of each kind
NoCronJobs == [kind \in {"metrics", "cleanup"} |-> 0]

InitialStats ==
  [lastSuccessfulCollection |-> <<>>, lastFailedCollection |-> <<>>,
   consecutiveErrors |-> 0, totalCollections |-> 0, totalErrors |-> 0,
   isRunning |-> FALSE]

\* One execution of collectMetricsWithRetry: its number, where it is
\* suspended (pc), its locals attempt and lastError, and a record of what it
\* did: collector invocations, failed attempts, the sleep durations, the
\* value of maxRetries when it was entered; for a finished run how it ended,
\* whether the alert was written and whether the promise rejected.
IdleRun ==
  [id |-> 0, pc |-> "idle", kind |-> "none", attempt |-> 0, lastError |-> <<>>,
   invoked |-> 0, failed |-> 0, sleeps |-> <<>>, maxRetries0 |-> 0,
   ended |-> "none", alerted |-> FALSE, rejected |-> FALSE]

FinishedRethrowing(rn, how, alert) ==
  [IdleRun EXCEPT !.id = rn.id, !.invoked = rn.invoked, !.failed = rn.failed,
                  !.ended = how,
                  !.alerted = alert /\ rn.lastError # <<>>,
                  !.rejected = (how = "failure")]

\* What is kept of a run once it has returned.  sendErrorAlert reads
\* error.message before it writes the alert, so with lastError still null it
\* throws a TypeError: nothing is written and the run's promise rejects.
Finished(rn, how, alert) ==
  [IdleRun EXCEPT !.id = rn.id, !.invoked = rn.invoked, !.failed = rn.failed,
                  !.ended = how,
                  !.alerted = alert /\ rn.lastError # <<>>,
                  !.rejected = alert /\ rn.lastError = <<>>]

\* Upstream answers in scheduler runs: rejection, a valid answer, an answer
\* with more merged than closed pull requests
SchedResponses ==
  {<<>>, <<BaseStats>>, <<[BaseStats EXCEPT !.pullRequests.merged = Num(2)]>>}

RECURSIVE Pow(_, _)
\* Math.pow(b, e) for a whole e >= 0
Pow(b, e) == IF e = 0 THEN 1 ELSE b * Pow(b, e - 1)

\* shouldSendErrorAlert
shouldSendErrorAlert(c, st) ==
  c.enableErrorNotifications /\ st.consecutiveErrors >= c.errorThreshold

RetryDelayFromMultiplier(c, attempt) == c.retryDelay * Pow(c.backoffMultiplier, attempt)

\* The delay before the next attempt, after attempt failed attempts
RetryDelay(c, attempt) == c.retryDelay * Pow(c.backoffMultiplier, attempt - 1)

RecordSuccessKeepErrors(st, at) ==
  [st EXCEPT !.lastSuccessfulCollection = <<at>>, !.totalCollections = @ + 1]

\* The success branch's bookkeeping
RecordSuccess(st, at) ==
  [st EXCEPT !.lastSuccessfulCollection = <<at>>, !.consecutiveErrors = 0,
             !.totalCollections = @ + 1]

EndFailedFromOne(r, rn, st) ==
  LET st1 == [st EXCEPT !.lastFailedCollection = <<now>>,
                        !.consecutiveErrors = 1]
      alert == shouldSendErrorAlert(config, st1)
  IN /\ stats' = st1
     /\ run' = [run EXCEPT ![r] = Finished(rn, "failure", alert)]

\* The tail of collectMetricsWithRetry ("All retries failed"): rn and st are
\* the run and the statistics as the loop left them
EndFailed(r, rn, st) ==
  LET st1 == [st EXCEPT !.lastFailedCollection = <<now>>,
                        !.consecutiveErrors = @ + 1]
      alert == shouldSendErrorAlert(config, st1)
  IN /\ stats' = st1
     /\ run' = [run EXCEPT ![r] = Finished(rn, "failure", alert)]

LoopHeadNoAwait(r, rn, st) ==
  IF rn.attempt < config.maxRetries
    THEN /\ run' = [run EXCEPT ![r] = [rn EXCEPT !.pc = "collecting",
                                         !.invoked = @ + 2]]
         /\ stats' = st
    ELSE EndFailed(r, rn, st)

\* The head of the while loop: start the next attempt (the collector is
\* invoked and the upstream query issued) or leave the loop
LoopHead(r, rn, st) ==
  IF rn.attempt < config.maxRetries
    THEN /\ run' = [run EXCEPT ![r] = [rn EXCEPT !.pc = "collecting",
                                         !.invoked = @ + 1]]
         /\ stats' = st
    ELSE EndFailed(r, rn, st)

\* collectMetricsWithRetry is entered, by the metrics cron job or collectNow
BeginRun(r, kind) ==
  /\ run[r].pc = "idle"
  /\ \A q \in Runs : q < r => run[q].pc # "idle"
  /\ nRuns < MaxRuns
  /\ nextId <= MaxInserts
  /\ nRuns' = nRuns + 1
  /\ LoopHead(r, [IdleRun EXCEPT !.kind = kind, !.id = nRuns + 1,
                           !.maxRetries0 = config.maxRetries], stats)
  /\ UNCHANGED <<clientVars, dbType, rows, nextId, now, nTicks, cli, sweep,
                 config, metricsJob, cleanupJob, cronJobs, nUpdates>>

\* The metrics cron job fires
TimerFire(r) ==
  /\ cronJobs["metrics"] > 0
  /\ BeginRun(r, "timer")

\* collectNow()
CollectNow(r) == BeginRun(r, "manual")

\* The collector call of the current attempt settles
AttemptSettles(r, resp, dbOk) ==
  /\ run[r].pc = "collecting"
  /\ CollectStore(resp, dbOk)
  /\ IF CollectOutcome(resp, dbOk) = "stored"
       THEN /\ stats' = RecordSuccess(stats, now)
            /\ run' = [run EXCEPT ![r] = Finished(run[r], "success", FALSE)]
       ELSE LET rn == [run[r] EXCEPT !.attempt = @ + 1,
                                     !.lastError = <<CollectOutcome(resp, dbOk)>>,
                                     !.failed = @ + 1]
                st == [stats EXCEPT !.totalErrors = @ + 1]
            IN IF rn.attempt < config.maxRetries
                 THEN /\ run' = [run EXCEPT ![r] =
                            [rn EXCEPT !.pc = "sleeping",
                                       !.sleeps = Append(@, RetryDelay(config, rn.attempt))]]
                      /\ stats' = st
                 ELSE EndFailed(r, rn, st)
  /\ UNCHANGED <<clientVars, dbType, now, nTicks, cli, sweep,
                 config, metricsJob, cleanupJob, cronJobs, nRuns, nUpdates>>

\* The upstream never answers the request of the current attempt: fetchGitHub
\* awaits fetch(url, {headers}) without a timeout or an abort signal, so the
\* await of collectAndStore stays pending and no step of the run follows
UpstreamHangs(r) ==
  /\ run[r].pc = "collecting"
  /\ run' = [run EXCEPT ![r].pc = "hung"]
  /\ UNCHANGED <<clientVars, dbType, rows, nextId, now, nTicks, cli, sweep,
                 config, stats, metricsJob, cleanupJob, cronJobs, nRuns, nUpdates>>

SleepDoneUnlessStopped(r) ==
  /\ run[r].pc = "sleeping"
  /\ IF stats.isRunning \/ run[r].kind = "manual"
       THEN LoopHead(r, run[r], stats)
       ELSE /\ run' = [run EXCEPT ![r] = Finished(run[r], "aborted", FALSE)]
            /\ stats' = stats
  /\ UNCHANGED <<clientVars, dbType, rows, nextId, now, nTicks, cli, sweep,
                 config, metricsJob, cleanupJob, cronJobs, nRuns, nUpdates>>

\* The backoff sleep ends and the loop condition is evaluated again
SleepDone(r) ==
  /\ run[r].pc = "sleeping"
  /\ LoopHead(r, run[r], stats)
  /\ UNCHANGED <<clientVars, dbType, rows, nextId, now, nTicks, cli, sweep,
                 config, metricsJob, cleanupJob, cronJobs, nRuns, nUpdates>>

\* The jobs start() creates: new CronJob(cronTime, onTick, null, true, 'UTC')
\* is a running timer from its construction on
NewJobs(c, st, jobs) ==
  /\ metricsJob' = <<[cronTime |-> c.metricsInterval]>>
  /\ cleanupJob' = <<[cronTime |-> c.cleanupInterval]>>
  /\ cronJobs' = [kind \in DOMAIN jobs |-> jobs[kind] + 1]
  /\ stats' = [st EXCEPT !.isRunning = TRUE]

StartUnguarded ==
  /\ NewJobs(config, stats, cronJobs)
  /\ UNCHANGED <<clientVars, dbType, rows, nextId, now, nTicks, cli, sweep,
                 config, run, nRuns, nUpdates>>

\* start()
Start ==
  /\ IF stats.isRunning
       THEN UNCHANGED <<stats, metricsJob, cleanupJob, cronJobs>>
       ELSE NewJobs(config, stats, cronJobs)
  /\ UNCHANGED <<clientVars, dbType, rows, nextId, now, nTicks, cli, sweep,
                 config, run, nRuns, nUpdates>>

StopMetricsOnly ==
  /\ IF ~stats.isRunning
       THEN UNCHANGED <<stats, metricsJob, cleanupJob, cronJobs>>
       ELSE /\ metricsJob' = <<>>
            /\ cleanupJob' = <<>>
            /\ cronJobs' = [cronJobs EXCEPT
                  !["metrics"] = IF metricsJob # <<>> THEN @ - 1 ELSE @]
            /\ stats' = [stats EXCEPT !.isRunning = FALSE]
  /\ UNCHANGED <<clientVars, dbType, rows, nextId, now, nTicks, cli, sweep,
                 config, run, nRuns, nUpdates>>

\* stop(): each job that is referenced is stopped and its reference dropped
Stop ==
  /\ IF ~stats.isRunning
       THEN UNCHANGED <<stats, metricsJob, cleanupJob, cronJobs>>
       ELSE /\ metricsJob' = <<>>
            /\ cleanupJob' = <<>>
            /\ cronJobs' = [cronJobs EXCEPT
                  !["metrics"] = IF metricsJob # <<>> THEN @ - 1 ELSE @,
                  !["cleanup"] = IF cleanupJob # <<>> THEN @ - 1 ELSE @]
            /\ stats' = [stats EXCEPT !.isRunning = FALSE]
  /\ UNCHANGED <<clientVars, dbType, rows, nextId, now, nTicks, cli, sweep,
                 config, run, nRuns, nUpdates>>

isHealthyIgnoringErrors(st, c, at) ==
  /\ st.lastSuccessfulCollection # <<>>
  /\ at - st.lastSuccessfulCollection[1] < HoursPerDay

\* isHealthy() at time at
isHealthy(st, c, at) ==
  /\ st.lastSuccessfulCollection # <<>>
  /\ at - st.lastSuccessfulCollection[1] < HoursPerDay
  /\ st.consecutiveErrors < c.errorThreshold

\* updateConfig(newConfig): { ...this.config, ...newConfig }
UpdateConfig(newConfig) ==
  /\ nUpdates < MaxUpdates
  /\ nUpdates' = nUpdates + 1
  /\ config' = [k \in ConfigKeys |->
                  IF k \in DOMAIN newConfig THEN newConfig[k] ELSE config[k]]
  /\ UNCHANGED <<clientVars, dbType, rows, nextId, now, nTicks, cli, sweep,
                 stats, metricsJob, cleanupJob, cronJobs, run, nRuns>>

\* What the last retention sweep was asked and what it reported: reported is
\* <<>> for a call that returns nothing, <<n>> for a returned count
NoSweep == [retentionDays |-> 0, failed |-> FALSE, reported |-> <<>>,
            logged |-> FALSE, unhandled |-> FALSE]

IdleCall ==
  [op |-> "none", pc |-> "idle", outcome |-> "none", metrics |-> <<>>,
   result |-> <<>>, queries |-> 0, writes |-> 0, sawToday |-> FALSE,
   today |-> 0, rejected |-> {}]

Init ==
  /\ dbType \in {"sqlite", "postgresql"}
  /\ rows = {}
  /\ nextId = 1
  /\ now = 0
  /\ nTicks = 0
  /\ cli = IdleCall
  /\ sweep = NoSweep
  /\ config = DefaultConfig
  /\ stats = InitialStats
  /\ metricsJob = <<>>
  /\ cleanupJob = <<>>
  /\ cronJobs = NoCronJobs
  /\ run = [r \in Runs |-> IdleRun]
  /\ nRuns = 0
  /\ nUpdates = 0
  /\ cache = [key \in Keys |-> <<>>]
  /\ dateNow = 0
  /\ got = NoGet
  /\ nCacheTicks = 0
  /\ fetch = NoFetch
  /\ req = NoReq
  /\ file = <<>>
  /\ clock = 0
  /\ nFileTicks = 0
  /\ post = NoPost
  /\ dash = NoDash

\* Time passes.  An await (upstream call, database read) never lasts for
\* years: the long jump is taken only while no call is in flight.
Tick(d) ==
  /\ nTicks < MaxTicks
  /\ d > HoursPerDay => (cli.pc = "idle" /\ \A r \in Runs : run[r].pc = "idle")
  /\ now' = now + d
  /\ nTicks' = nTicks + 1
  /\ UNCHANGED <<clientVars, dbType, rows, nextId, cli, sweep, schedVars>>

\* A caller (the collect route) invokes collectCurrentMetrics: the upstream
\* query is issued and the call waits for it.
CollectBegin ==
  /\ cli.pc = "idle"
  /\ nextId <= MaxInserts
  /\ cli' = [IdleCall EXCEPT !.op = "collectCurrentMetrics",
                             !.pc = "awaitUpstream", !.queries = 1]
  /\ UNCHANGED <<clientVars, dbType, rows, nextId, now, nTicks, sweep, schedVars>>

\* The upstream query settles: build, validate, store, return or throw
CollectComplete(resp, dbOk) ==
  /\ cli.pc = "awaitUpstream"
  /\ CollectStore(resp, dbOk)
  /\ cli' = [cli EXCEPT
       !.pc = "idle",
       !.outcome = CollectOutcome(resp, dbOk),
       !.metrics = IF resp = <<>> THEN <<>> ELSE <<BuildMetrics(resp[1], now)>>,
       !.writes = IF CollectOutcome(resp, dbOk) \in {"stored", "dbError"} THEN 1 ELSE 0,
       !.result = IF CollectOutcome(resp, dbOk) = "stored"
                    THEN <<BuildMetrics(resp[1], now)>> ELSE <<>>]
  /\ UNCHANGED <<clientVars, dbType, now, nTicks, sweep, schedVars>>

\* collectCurrentMetrics of metrics-collector.ts is called: the five
\* sub-queries are issued together
CollectAllBegin ==
  /\ cli.pc = "idle"
  /\ nextId <= MaxInserts
  /\ cli' = [IdleCall EXCEPT !.op = "collectCurrentMetrics",
                             !.pc = "awaitAll", !.queries = Cardinality(SubQueries)]
  /\ UNCHANGED <<clientVars, dbType, rows, nextId, now, nTicks, sweep, schedVars>>

\* Promise.all settles: on a rejection the catch block rethrows; otherwise
\* the metrics are built and stored with MetricsDatabase.storeMetrics
\* (this version neither validates nor goes through the adapter)
CollectAllSettled(rejected, s, dbOk) ==
  LET all == PromiseAll(rejected, s)
      outcome == IF all = <<>> THEN "apiError" ELSE IF dbOk THEN "stored" ELSE "dbError"
  IN /\ cli.pc = "awaitAll"
     /\ IF outcome = "stored"
          THEN /\ rows' = SqliteStoreMetrics(rows, nextId, BuildMetrics(all[1], now), now)
               /\ nextId' = nextId + 1
          ELSE UNCHANGED <<rows, nextId>>
     /\ cli' = [cli EXCEPT
          !.pc = "idle",
          !.outcome = outcome,
          !.rejected = rejected,
          !.metrics = IF all = <<>> THEN <<>> ELSE <<BuildMetrics(all[1], now)>>,
          !.writes = IF all = <<>> THEN 0 ELSE 1,
          !.result = IF outcome = "stored" THEN <<BuildMetrics(all[1], now)>> ELSE <<>>]
     /\ UNCHANGED <<clientVars, dbType, now, nTicks, sweep, schedVars>>

\* collectIfNeeded without the hasCollectedToday guard
IfNeededCheckUnguarded(latest) ==
  /\ cli.pc = "idle"
  /\ nextId <= MaxInserts
  /\ latest \in LatestResults(rows)
  /\ cli' = [IdleCall EXCEPT !.op = "collectIfNeeded", !.today = DateOf(now),
                             !.pc = "awaitUpstream", !.queries = 1]
  /\ UNCHANGED <<clientVars, dbType, rows, nextId, now, nTicks, sweep, schedVars>>

\* collectIfNeeded up to its first decision: hasCollectedToday reads the
\* latest row and compares its date with today's
IfNeededCheck(latest) ==
  /\ cli.pc = "idle"
  /\ nextId <= MaxInserts
  /\ latest \in LatestResults(rows)
  /\ LET collected == latest # <<>> /\ latest[1].date = DateOf(now)
     IN cli' = [IdleCall EXCEPT
          !.op = "collectIfNeeded",
          !.sawToday = collected,
          !.today = DateOf(now),
          !.pc = IF collected THEN "awaitLatest" ELSE "awaitUpstream",
          !.queries = IF collected THEN 0 ELSE 1]
  /\ UNCHANGED <<clientVars, dbType, rows, nextId, now, nTicks, sweep, schedVars>>

\* collectIfNeeded, already collected today: return getLatestMetrics()
IfNeededReturn(latest) ==
  /\ cli.pc = "awaitLatest"
  /\ latest \in LatestResults(rows)
  /\ cli' = [cli EXCEPT !.pc = "idle", !.outcome = "skipped", !.result = latest]
  /\ UNCHANGED <<clientVars, dbType, rows, nextId, now, nTicks, sweep, schedVars>>

\* MetricsCollector.cleanupOldMetrics(retentionDays): computes and logs a
\* cutoff date, then calls the adapter's cleanupOldMetrics() without it;
\* resolves to undefined, or rejects when the database call fails
CleanupOldMetrics(retentionDays, dbOk) ==
  /\ rows' = IF dbOk THEN AdapterCleanupOldMetrics(rows, now) ELSE rows
  /\ sweep' = [NoSweep EXCEPT !.retentionDays = retentionDays, !.failed = ~dbOk]
  /\ UNCHANGED <<clientVars, dbType, nextId, now, nTicks, cli, schedVars>>

\* performCleanup, fired by the cleanup cron job.  The try block calls the
\* collector's async cleanupOldMetrics without await: the promise is
\* dropped, so its rejection never reaches the catch block (which would log
\* 'Cleanup failed') and is left unhandled.
PerformCleanup(dbOk) ==
  /\ cronJobs["cleanup"] > 0
  /\ rows' = IF dbOk THEN AdapterCleanupOldMetrics(rows, now) ELSE rows
  /\ sweep' = [NoSweep EXCEPT !.retentionDays = config.retentionDays,
                              !.failed = ~dbOk, !.unhandled = ~dbOk]
  /\ UNCHANGED <<clientVars, dbType, nextId, now, nTicks, cli, schedVars>>

\* Date.now() advances
CacheTick(d) ==
  /\ nCacheTicks < MaxCacheTicks
  /\ nCacheTicks' = nCacheTicks + 1
  /\ dateNow' = dateNow + d
  /\ UNCHANGED <<coreVars, pageVars, readVars, fileVars, cache, got>>

\* MemoryCache.set(key, data, ttlMinutes)
CacheSet(key, data, ttlMinutes) ==
  /\ cache' = [cache EXCEPT ![key] =
                 <<[data |-> data, timestamp |-> dateNow,
                    ttl |-> ttlMinutes * SecondsPerMinute]>>]
  /\ UNCHANGED <<coreVars, pageVars, readVars, fileVars, dateNow, got, nCacheTicks>>

\* MemoryCache.get(key)
CacheGet(key) ==
  LET entry == cache[key]
  IN /\ IF entry = <<>>
          THEN /\ got' = [op |-> "get", key |-> key, result |-> <<>>, seq |-> 1 - got.seq]
               /\ cache' = cache
          ELSE IF Expired(entry[1], dateNow)
            THEN /\ cache' = [cache EXCEPT ![key] = <<>>]
                 /\ got' = [op |-> "get", key |-> key, result |-> <<>>, seq |-> 1 - got.seq]
            ELSE /\ cache' = cache
                 /\ got' = [op |-> "get", key |-> key, result |-> <<entry[1].data>>,
                            seq |-> 1 - got.seq]
     /\ UNCHANGED <<coreVars, pageVars, readVars, fileVars, dateNow, nCacheTicks>>

\* MemoryCache.has(key)
CacheHas(key) ==
  LET entry == cache[key]
      present == entry # <<>> /\ ~Expired(entry[1], dateNow)
  IN /\ cache' = IF entry # <<>> /\ ~present THEN [cache EXCEPT ![key] = <<>>] ELSE cache
     /\ got' = [op |-> "has", key |-> key, result |-> <<present>>, seq |-> 1 - got.seq]
     /\ UNCHANGED <<coreVars, pageVars, readVars, fileVars, dateNow, nCacheTicks>>

\* MemoryCache.delete(key)
CacheDelete(key) ==
  /\ cache' = [cache EXCEPT ![key] = <<>>]
  /\ UNCHANGED <<coreVars, pageVars, readVars, fileVars, dateNow, got, nCacheTicks>>

\* MemoryCache.clear()
CacheClear ==
  /\ cache' = [key \in Keys |-> <<>>]
  /\ UNCHANGED <<coreVars, pageVars, readVars, fileVars, dateNow, got, nCacheTicks>>

\* MemoryCache.cleanup(), run every 10 minutes
CacheCleanup ==
  /\ cache' = [key \in Keys |->
                 IF cache[key] # <<>> /\ Expired(cache[key][1], dateNow)
                   THEN <<>> ELSE cache[key]]
  /\ UNCHANGED <<coreVars, pageVars, readVars, fileVars, dateNow, got, nCacheTicks>>

\* fetchAllPages(endpoint, options, maxPages) is called
FetchAllPages(perPageOpt, maxPagesOpt) ==
  /\ fetch.pc # "awaiting"
  /\ fetch' = PageLoop([NoFetch EXCEPT
                 !.page = 1,
                 !.perPage = IF perPageOpt = <<>> \/ perPageOpt[1] = 0
                               THEN DefaultPerPage ELSE perPageOpt[1],
                 !.maxPages = IF maxPagesOpt = <<>> THEN DefaultMaxPages
                                ELSE maxPagesOpt[1]])
  /\ UNCHANGED <<coreVars, cacheVars, readVars, fileVars>>

\* fetchGitHub resolves with data
PageArrives(data) ==
  /\ fetch.pc = "awaiting"
  /\ LET f == [fetch EXCEPT !.pages = Append(@, data)]
     IN fetch' =
          IF ~data.list \/ Len(data.items) = 0
            THEN [f EXCEPT !.pc = "done"]
            ELSE LET g == [f EXCEPT !.results = @ \o data.items]
                 IN IF ShortPage(data.items, f.perPage)
                      THEN [g EXCEPT !.pc = "done"]
                      ELSE PageLoop([g EXCEPT !.page = @ + 1])
  /\ UNCHANGED <<coreVars, cacheVars, readVars, fileVars>>

\* fetchGitHub throws (HTTP error or network error): fetchAllPages rejects
PageFails ==
  /\ fetch.pc = "awaiting"
  /\ fetch' = [fetch EXCEPT !.pc = "failed"]
  /\ UNCHANGED <<coreVars, cacheVars, readVars, fileVars>>

\* getCachedOrFetch(cacheKey, fetchFn, ttlMinutes) up to its await: a hit
\* returns the cached value, a miss calls fetchFn.  Every value this route
\* caches is an object or an array, so `if (cached)` tests cached !== null.
GetCachedOrFetch(key, ttlMinutes) ==
  LET cached == GetResult(cache, key, dateNow)
  IN /\ req.pc = "idle"
     /\ cache' = AfterGet(cache, key, dateNow)
     /\ req' = IF cached # <<>>
                 THEN [NoReq EXCEPT !.key = key, !.ttlMinutes = ttlMinutes,
                                    !.outcome = "hit", !.result = cached,
                                    !.seq = 1 - req.seq]
                 ELSE [NoReq EXCEPT !.pc = "fetching", !.key = key,
                                    !.ttlMinutes = ttlMinutes, !.calls = 1,
                                    !.seq = req.seq]
     /\ UNCHANGED <<coreVars, pageVars, fileVars, dateNow, got, nCacheTicks>>

FetchSettlesCachingErrors(ok, data) ==
  /\ req.pc = "fetching"
  /\ cache' = [cache EXCEPT ![req.key] =
                 <<[data |-> IF ok THEN data ELSE "error", timestamp |-> dateNow,
                    ttl |-> req.ttlMinutes * SecondsPerMinute]>>]
  /\ req' = [req EXCEPT !.pc = "idle", !.outcome = IF ok THEN "fetched" ELSE "error",
                         !.result = IF ok THEN <<data>> ELSE <<>>, !.seq = 1 - req.seq]
  /\ UNCHANGED <<coreVars, pageVars, fileVars, dateNow, got, nCacheTicks>>

\* await fetchFn() settles: the data is cached and returned, or the error
\* leaves getCachedOrFetch before cache.set is reached
FetchSettles(ok, data) ==
  /\ req.pc = "fetching"
  /\ cache' = IF ok
                THEN [cache EXCEPT ![req.key] =
                        <<[data |-> data, timestamp |-> dateNow,
                           ttl |-> req.ttlMinutes * SecondsPerMinute]>>]
                ELSE cache
  /\ req' = [req EXCEPT !.pc = "idle", !.outcome = IF ok THEN "fetched" ELSE "error",
                         !.result = IF ok THEN <<data>> ELSE <<>>, !.seq = 1 - req.seq]
  /\ UNCHANGED <<coreVars, pageVars, fileVars, dateNow, got, nCacheTicks>>

\* The clock of the file-backed cache advances
FileTick(d) ==
  /\ nFileTicks < MaxFileTicks
  /\ nFileTicks' = nFileTicks + 1
  /\ clock' = clock + d
  /\ UNCHANGED <<coreVars, cacheVars, pageVars, readVars, file, post, dash>>

\* POST /api/refresh up to its second await: canRefresh() is read, and the
\* request is answered 429 or goes on to clear the cache
RefreshCheck ==
  /\ post.pc = "idle"
  /\ post' = IF FileCanRefresh(file, clock)
               THEN [post EXCEPT !.pc = "clearing"]
               ELSE [post EXCEPT !.status = 429, !.seq = 1 - post.seq]
  /\ UNCHANGED <<coreVars, cacheVars, pageVars, readVars, file, clock, nFileTicks, dash>>

\* await SimpleCache.clear(), then the answer
RefreshClear ==
  /\ post.pc = "clearing"
  /\ file' = <<>>
  /\ post' = [post EXCEPT !.pc = "idle", !.status = 200, !.seq = 1 - post.seq]
  /\ UNCHANGED <<coreVars, cacheVars, pageVars, readVars, clock, nFileTicks, dash>>

\* GET /api/dashboard up to its upstream calls: cached data is returned,
\* otherwise fresh data is fetched
DashGet ==
  LET cachedData == FileGet(file, clock)
  IN /\ dash.pc = "idle"
     /\ dash' = IF cachedData # <<>>
                  THEN [dash EXCEPT !.status = 200, !.cached = TRUE,
                                    !.body = cachedData, !.seq = 1 - dash.seq]
                  ELSE [dash EXCEPT !.pc = "fetching"]
     /\ UNCHANGED <<coreVars, cacheVars, pageVars, readVars, file, clock, nFileTicks, post>>

\* The upstream calls settle: the fresh data is stored with SimpleCache.set
\* and returned, or the catch block answers 500
DashFetched(ok, data, wrOk) ==
  /\ dash.pc = "fetching"
  /\ file' = IF ok THEN FileSet(file, data, clock, wrOk) ELSE file
  /\ dash' = IF ok
               THEN [dash EXCEPT !.pc = "idle", !.status = 200, !.cached = FALSE,
                                 !.body = <<data>>, !.seq = 1 - dash.seq]
               ELSE [dash EXCEPT !.pc = "idle", !.status = 500, !.cached = FALSE,
                                 !.body = <<>>, !.seq = 1 - dash.seq]
  /\ UNCHANGED <<coreVars, cacheVars, pageVars, readVars, clock, nFileTicks, post>>

PagesNext ==
  \/ \E perPageOpt \in PerPageInputs, maxPagesOpt \in MaxPagesInputs :
       FetchAllPages(perPageOpt, maxPagesOpt)
  \/ \E data \in PageResponses(fetch.page, fetch.perPage) : PageArrives(data)
  \/ PageFails

PagesSpec == Init /\ [][PagesNext]_vars

CacheNext ==
  \/ \E d \in CacheClockSteps : CacheTick(d)
  \/ \E key \in Keys, data \in Payloads, ttlMinutes \in TtlInputs :
       CacheSet(key, data, ttlMinutes)
  \/ \E key \in Keys : CacheGet(key)
  \/ \E key \in Keys : CacheHas(key)
  \/ \E key \in Keys : CacheDelete(key)
  \/ CacheClear
  \/ CacheCleanup

CacheSpec == Init /\ [][CacheNext]_vars

\* The file-backed cache under one refresh request and one dashboard
\* request at a time, which may overlap
FileNext ==
  \/ \E d \in FileClockSteps : FileTick(d)
  \/ RefreshCheck
  \/ RefreshClear
  \/ DashGet
  \/ \E ok \in BOOLEAN, data \in DashboardData, wrOk \in BOOLEAN : DashFetched(ok, data, wrOk)

FileSpec == Init /\ [][FileNext]_vars

\* The dashboard route's use of the request-level cache
ReadNext ==
  \/ \E d \in CacheClockSteps : CacheTick(d)
  \/ \E key \in Keys, ttlMinutes \in TtlInputs : GetCachedOrFetch(key, ttlMinutes)
  \/ \E ok \in BOOLEAN, data \in Payloads : FetchSettles(ok, data)
  \/ CacheCleanup

ReadSpec == Init /\ [][ReadNext]_vars

Next ==
  \/ \E d \in ClockSteps : Tick(d)
  \/ CollectBegin
  \/ \E resp \in ApiResponses, dbOk \in BOOLEAN : CollectComplete(resp, dbOk)
  \/ \E latest \in LatestResults(rows) : IfNeededCheck(latest)
  \/ \E latest \in LatestResults(rows) : IfNeededReturn(latest)
  \/ \E n \in RetentionInputs, dbOk \in BOOLEAN : CleanupOldMetrics(n, dbOk)

Spec == Init /\ [][Next]_vars

\* The collector of metrics-collector.ts
SubQueryNext ==
  \/ \E d \in ClockSteps : Tick(d)
  \/ CollectAllBegin
  \/ \E rejected \in RejectedInputs, s \in StatsInputs, dbOk \in BOOLEAN :
       CollectAllSettled(rejected, s, dbOk)

SubQuerySpec == Init /\ [][SubQueryNext]_vars

\* The scheduler with one run at a time, under configuration updates
SchedNext ==
  \/ \E d \in ClockSteps : Tick(d)
  \/ Start
  \/ Stop
  \/ \E newConfig \in ConfigUpdates : UpdateConfig(newConfig)
  \/ TimerFire(1)
  \/ CollectNow(1)
  \/ \E resp \in SchedResponses, dbOk \in BOOLEAN : AttemptSettles(1, resp, dbOk)
  \/ SleepDone(1)

SchedSpec == Init /\ [][SchedNext]_vars

\* The scheduler under the constructor's configuration, with runs that
\* overlap and with the cleanup job
\* The scheduler with an upstream that may leave a request unanswered.  Every
\* answer that comes is eventually handled and every sleep timer eventually
\* fires.
HangNext ==
  \/ SchedNext
  \/ UpstreamHangs(1)

HangSpec ==
  /\ Init /\ [][HangNext]_vars
  /\ WF_vars(\E resp \in SchedResponses, dbOk \in BOOLEAN : AttemptSettles(1, resp, dbOk))
  /\ WF_vars(SleepDone(1))

OverlapNext ==
  \/ \E d \in ClockSteps \cap (0..HoursPerDay) : Tick(d)
  \/ Start
  \/ Stop
  \/ \E r \in Runs : TimerFire(r)
  \/ \E r \in Runs : CollectNow(r)
  \/ \E r \in Runs, resp \in SchedResponses, dbOk \in BOOLEAN : AttemptSettles(r, resp, dbOk)
  \/ \E r \in Runs : SleepDone(r)
  \/ \E dbOk \in BOOLEAN : PerformCleanup(dbOk)

OverlapSpec == Init /\ [][OverlapNext]_vars

\* ================================================================ claims

\* C1: after any sequence of storeMetrics calls the store holds at most one
\* row per date (a second snapshot for a date replaces the first).
C1_OneRowPerDate ==
  \A r1, r2 \in rows : r1.date = r2.date => r1 = r2

\* C2: a collection whose snapshot has merged_prs > closed_prs ends with
\* the validation error, storeMetrics is not called for it and the store is
\* left unchanged.
C2_InconsistentRejected ==
  [][(/\ cli.pc = "awaitUpstream" /\ cli'.pc = "idle"
      /\ cli'.metrics # <<>>
      /\ JsGreater(cli'.metrics[1].merged_prs, cli'.metrics[1].closed_prs))
     => (cli'.outcome = "invalid" /\ cli'.writes = 0 /\ rows' = rows)]_vars

C2_Witness ==
  /\ cli.pc = "idle" /\ cli.outcome = "invalid" /\ cli.metrics # <<>>
  /\ JsGreater(cli.metrics[1].merged_prs, cli.metrics[1].closed_prs)
  /\ \A f \in CountFields : IsFinite(cli.metrics[1][f]) /\ cli.metrics[1][f].v >= 0

BadCount(x) == ~IsFinite(x) \/ x.v < 0

\* C3: a collection whose snapshot has a missing, non-numeric, negative or
\* non-finite count field ends with the validation error and is never
\* persisted; every stored row has all count fields finite and non-negative.
C3_BadFieldsRejected ==
  /\ (cli.pc = "idle" /\ cli.metrics # <<>>
        /\ \E f \in CountFields : BadCount(cli.metrics[1][f]))
       => (cli.outcome = "invalid" /\ cli.writes = 0)
  /\ \A r \in rows : \A f \in CountFields : ~BadCount(r[f])

\* Run r returns in this step (a run entered with maxRetries <= 0 is entered
\* and returns in one step)
RunEnds(r) ==
  run'[r].pc = "idle" /\ (run[r].pc # "idle" \/ run'[r].id # run[r].id)

\* An attempt of run r fails in this step
AttemptFails(r) ==
  run[r].pc = "collecting" /\ run'[r].failed = run[r].failed + 1

\* The value of maxRetries when the run that returns in this step was entered
EnteredWith(r) ==
  IF run[r].pc = "idle" THEN config.maxRetries ELSE run[r].maxRetries0

\* C4: a run in which every attempt fails has invoked the collector exactly
\* maxRetries times (the value the run was entered with, or the value at its
\* end), every one of these attempts failed and added one to totalErrors,
\* and its end adds exactly 1 to consecutiveErrors, sets lastFailedCollection
\* and leaves totalCollections alone.
C4_FailedRunAccounting ==
  [][\A r \in Runs :
       /\ AttemptFails(r)
            => /\ stats'.totalErrors = stats.totalErrors + 1
               /\ stats'.totalCollections = stats.totalCollections
               /\ ~RunEnds(r) => stats'.consecutiveErrors = stats.consecutiveErrors
       /\ (RunEnds(r) /\ run'[r].ended = "failure")
            => /\ run'[r].invoked \in {EnteredWith(r), config.maxRetries}
               /\ run'[r].failed = run'[r].invoked
               /\ stats'.consecutiveErrors = stats.consecutiveErrors + 1
               /\ stats'.lastFailedCollection = <<now>>
               /\ stats'.totalCollections = stats.totalCollections]_vars

\* C5: the k-th failed attempt of a run is followed by a sleep of
\* retryDelay * backoffMultiplier^(k-1) when k < maxRetries and by no sleep
\* when k >= maxRetries; a successful attempt is followed by no sleep, and a
\* sleep begins at no other step.
C5_BackoffSleeps ==
  [][\A r \in Runs :
       /\ AttemptFails(r)
            => LET k == run'[r].failed
               IN IF k < config.maxRetries
                    THEN /\ run'[r].pc = "sleeping"
                         /\ run'[r].sleeps =
                              Append(run[r].sleeps,
                                     config.retryDelay * Pow(config.backoffMultiplier, k - 1))
                         /\ k = 1 => run'[r].sleeps = <<config.retryDelay>>
                         /\ k = 2 => run'[r].sleeps[2] =
                                       config.retryDelay * config.backoffMultiplier
                    ELSE run'[r].pc = "idle"
       /\ (run'[r].pc = "sleeping" /\ run[r].pc # "sleeping") => AttemptFails(r)
       /\ (run'[r].sleeps # run[r].sleeps /\ run'[r].pc # "idle") => AttemptFails(r)]_vars

C5_Witness ==
  \E r \in Runs : /\ run[r].pc = "sleeping"
                  /\ run[r].failed = 2
                  /\ run[r].sleeps = <<5000, 10000>>
                  /\ config.maxRetries = 3

\* C6: the step in which an attempt succeeds (its snapshot is stored) ends
\* the run without a further attempt or sleep, sets consecutiveErrors to 0,
\* adds exactly 1 to totalCollections and sets lastSuccessfulCollection,
\* whatever failed before.
C6_SuccessEndsRun ==
  [][(Cardinality(rows') = Cardinality(rows) + 1)
       => \E r \in Runs :
            /\ run[r].pc = "collecting"
            /\ RunEnds(r) /\ run'[r].ended = "success"
            /\ run'[r].invoked = run[r].invoked
            /\ run'[r].failed = run[r].failed
            /\ stats'.consecutiveErrors = 0
            /\ stats'.totalCollections = stats.totalCollections + 1
            /\ stats'.lastSuccessfulCollection = <<now>>
            /\ stats'.totalErrors = stats.totalErrors
            /\ stats'.lastFailedCollection = stats.lastFailedCollection]_vars

C6_Witness ==
  /\ \E r \in Runs : run[r].pc = "idle" /\ run[r].ended = "success" /\ run[r].failed >= 1
  /\ stats.lastFailedCollection # <<>>
  /\ stats.consecutiveErrors = 0
  /\ stats.totalCollections = 1
  /\ stats.lastSuccessfulCollection = <<now>>

\* C7: a run that ends in failure writes the alert if and only if
\* notifications are enabled and consecutiveErrors, after this run's
\* increment, has reached errorThreshold; a run that ends in success writes
\* none.
C7_AlertIffThreshold ==
  [][\A r \in Runs :
       RunEnds(r)
         => IF run'[r].ended = "failure"
              THEN run'[r].alerted <=> (/\ config.enableErrorNotifications
                                        /\ stats'.consecutiveErrors >= config.errorThreshold)
              ELSE ~run'[r].alerted]_vars

\* C8: a retention sweep with retentionDays = N removes exactly the rows
\* whose date is older than now - N days and reports how many it removed.
C8_RetentionSweep ==
  [][\A n \in RetentionInputs :
       CleanupOldMetrics(n, TRUE)
         => /\ rows' = {r \in rows : ~(r.date < DateOf(now) - n)}
            /\ sweep'.reported = <<Cardinality(rows) - Cardinality(rows')>>]_vars

LatestHasToday == \A l \in LatestResults(rows) : l # <<>> /\ l[1].date = DateOf(now)

\* C9: collectIfNeeded skips (no upstream query, no store write, returns the
\* latest snapshot) when the latest snapshot carries today's date, and
\* otherwise performs one collection; once a snapshot of today is stored,
\* every collectIfNeeded of that day skips.
C9_CollectIfNeeded ==
  [][/\ (cli.pc = "idle" /\ cli'.op = "collectIfNeeded" /\ cli'.pc # "idle")
        => /\ (LatestHasToday \/ \E r \in rows : r.date = DateOf(now))
                => (cli'.pc = "awaitLatest" /\ cli'.queries = 0)
           /\ ~LatestHasToday => (cli'.pc = "awaitUpstream" /\ cli'.queries = 1)
           /\ rows' = rows
     /\ (cli.op = "collectIfNeeded" /\ cli.pc = "awaitLatest" /\ cli'.pc = "idle")
        => /\ cli'.result # <<>> /\ cli'.result \in LatestResults(rows)
           /\ cli'.result[1].date = cli.today
           /\ cli'.queries = 0 /\ cli'.writes = 0 /\ rows' = rows
     /\ (cli.op = "collectIfNeeded" /\ cli.pc = "awaitUpstream" /\ cli'.pc = "idle")
        => /\ cli'.queries = 1 /\ cli'.writes <= 1
           /\ Cardinality(rows') <= Cardinality(rows) + 1]_vars

C9_Witness ==
  /\ cli.op = "collectIfNeeded" /\ cli.pc = "idle" /\ cli.outcome = "skipped"
  /\ cli.result # <<>> /\ cli.result[1].date = DateOf(now)
  /\ Cardinality(rows) = 1

\* C10: on the same table contents the SQLite and the Postgres backend give
\* the same answers to getTimeRangeMetrics, getHealthStatus and
\* cleanupOldMetrics, and accept the same snapshots.
C10_BackendsAgree ==
  /\ \A days \in DaysInputs :
       SqliteGetTimeRangeMetrics(rows, now, days) = NeonGetTimeRangeMetrics(rows, now, days)
  /\ SqliteGetHealthStatus(rows) = NeonGetHealthStatus(rows)
  /\ SqliteCleanupOldMetrics(rows, now) = NeonCleanupOldMetrics(rows, now)

\* x is a most recent row of S
Greatest(x, S) == x \in S /\ \A y \in S : y.timestamp <= x.timestamp

\* C11: getTimeRangeMetrics(days) is null iff no row has timestamp >= now -
\* days; otherwise current is a most recent row at or after the cutoff,
\* previous a most recent row before the cutoff, or current itself when
\* there is none, and change is current.f - previous.f for every field
\* compared.
C11_TimeRangeMetrics ==
  \A days \in DaysInputs :
    LET cutoff == now - days * HoursPerDay
        atOrAfter == {r \in rows : r.timestamp >= cutoff}
        before == {r \in rows : r.timestamp < cutoff}
    IN \A res \in AdapterGetTimeRangeMetrics(rows, now, days) :
         /\ (res = <<>>) <=> (atOrAfter = {})
         /\ res # <<>> =>
              \E c \in atOrAfter, p \in rows :
                /\ Greatest(c, atOrAfter)
                /\ IF before = {} THEN p = c ELSE Greatest(p, before)
                /\ \A f \in DOMAIN res[1].current : res[1].current[f] = c[f]
                /\ res[1].previous # <<>>
                /\ \A f \in DOMAIN res[1].previous[1] : res[1].previous[1][f] = p[f]
                /\ res[1].change # <<>>
                /\ \A f \in DOMAIN res[1].change[1] :
                     res[1].change[1][f] = JsSub(c[f], p[f])

\* This step is a get call
GetStep == got'.op = "get" /\ got'.seq # got.seq

\* C12 as stated: get(key) returns the stored value if an entry exists and
\* now - insertedAt < ttl; in every other case it returns null and the entry
\* is not in the cache afterwards.
C12_GetBeforeTtl ==
  [][GetStep =>
       LET entry == cache[got'.key]
       IN IF entry # <<>> /\ dateNow - entry[1].timestamp < entry[1].ttl
            THEN got'.result = <<entry[1].data>> /\ cache' = cache
            ELSE got'.result = <<>> /\ cache'[got'.key] = <<>>]_vars

\* C12 amended: get(key) returns the stored value if an entry exists and
\* now - insertedAt <= ttl and leaves the cache alone; in every other case
\* it returns null, the entry is not in the cache afterwards and the other
\* entries are untouched.  In particular an entry set with 1 minute is gone
\* 61 seconds later.
C12_GetUpToTtl ==
  [][GetStep =>
       LET entry == cache[got'.key]
       IN /\ IF entry # <<>> /\ dateNow - entry[1].timestamp <= entry[1].ttl
               THEN got'.result = <<entry[1].data>> /\ cache' = cache
               ELSE /\ got'.result = <<>>
                    /\ cache' = [cache EXCEPT ![got'.key] = <<>>]
          /\ (/\ entry # <<>>
              /\ entry[1].ttl = SecondsPerMinute
              /\ dateNow - entry[1].timestamp = SecondsPerMinute + 1)
               => (got'.result = <<>> /\ cache'[got'.key] = <<>>)]_vars

C12_Witness ==
  /\ got.op = "get" /\ got.result # <<>>
  /\ cache[got.key] # <<>>
  /\ got.result[1] = cache[got.key][1].data
  /\ dateNow - cache[got.key][1].timestamp = cache[got.key][1].ttl

\* A full page: a list of exactly perPage items
FullPage(data, perPage) == data.list /\ Len(data.items) = perPage

RECURSIVE Concat(_)
\* The items of the pages ps, in order
Concat(ps) == IF ps = <<>> THEN <<>> ELSE Head(ps).items \o Concat(Tail(ps))

\* C13: a fetchAllPages call requests pages 1, 2, ... and never more than
\* maxPages of them, holds at most maxPages * pageSize items, and against
\* full pages only it returns after exactly maxPages requests.
C13_AtMostMaxPages ==
  fetch.pc # "idle" =>
    /\ Len(fetch.requests) <= fetch.maxPages
    /\ fetch.requests = [i \in 1..Len(fetch.requests) |-> i]
    /\ Len(fetch.results) <= fetch.maxPages * fetch.perPage
    /\ (/\ fetch.pc = "done"
        /\ \A i \in 1..Len(fetch.pages) : FullPage(fetch.pages[i], fetch.perPage))
         => Len(fetch.requests) = fetch.maxPages

C13_Witness ==
  /\ fetch.pc = "done"
  /\ fetch.maxPages = 2
  /\ Len(fetch.requests) = 2
  /\ \A i \in 1..Len(fetch.pages) : FullPage(fetch.pages[i], fetch.perPage)
  /\ Len(fetch.results) = 2 * fetch.perPage

\* C14: every page before the last one received is full; the call returns
\* at the first page that is empty, not a list or short (or at page
\* maxPages), requests nothing after it, and returns the items of all
\* pages received, in order.
C14_StopsAtShortPage ==
  LET n == Len(fetch.pages)
  IN /\ fetch.pc = "awaiting"
          => /\ Len(fetch.requests) = n + 1
             /\ \A i \in 1..n : FullPage(fetch.pages[i], fetch.perPage)
     /\ fetch.pc = "done"
          => /\ Len(fetch.requests) = n
             /\ \A i \in 1..(n - 1) : FullPage(fetch.pages[i], fetch.perPage)
             /\ n >= 1 => (~FullPage(fetch.pages[n], fetch.perPage) \/ n = fetch.maxPages)
             /\ n < fetch.maxPages => n >= 1
             /\ fetch.results = Concat(fetch.pages)

C14_Witness ==
  /\ fetch.pc = "done"
  /\ fetch.maxPages >= 3
  /\ Len(fetch.pages) = 2
  /\ fetch.pages[2].list
  /\ Len(fetch.pages[2].items) \in 1..(fetch.perPage - 1)
  /\ fetch.results = fetch.pages[1].items \o fetch.pages[2].items

\* C15: start() on a running scheduler changes nothing; start() on a stopped
\* one leaves exactly one running metrics job and one running cleanup job,
\* both referenced, and isRunning set; timers are created at no other step,
\* and never more than one of each kind is running.
C15_StartOnce ==
  [][/\ Start => IF stats.isRunning
                   THEN UNCHANGED vars
                   ELSE /\ cronJobs' = [kind \in DOMAIN cronJobs |-> 1]
                        /\ metricsJob' = <<[cronTime |-> config.metricsInterval]>>
                        /\ cleanupJob' = <<[cronTime |-> config.cleanupInterval]>>
                        /\ stats' = [stats EXCEPT !.isRunning = TRUE]
                        /\ UNCHANGED <<config, run, rows>>
     /\ \A kind \in DOMAIN cronJobs :
          /\ cronJobs'[kind] <= 1
          /\ cronJobs'[kind] > cronJobs[kind] => ~stats.isRunning /\ stats'.isRunning]_vars

C15_Witness ==
  /\ stats.isRunning
  /\ cronJobs = [kind \in DOMAIN cronJobs |-> 1]
  /\ metricsJob # <<>> /\ cleanupJob # <<>>
  /\ nRuns >= 1

\* C16: stop() on a running scheduler stops both timers, drops both
\* references and clears isRunning; stop() on a stopped scheduler changes
\* nothing; while the scheduler is stopped no timer-driven collection run
\* and no cleanup pass begins.
C16_StopCancels ==
  [][/\ Stop => IF ~stats.isRunning
                  THEN UNCHANGED vars
                  ELSE /\ cronJobs' = NoCronJobs
                       /\ metricsJob' = <<>> /\ cleanupJob' = <<>>
                       /\ stats' = [stats EXCEPT !.isRunning = FALSE]
                       /\ UNCHANGED <<config, run, rows>>
     /\ (\E r \in Runs : TimerFire(r)) => stats.isRunning
     /\ (\E dbOk \in BOOLEAN : PerformCleanup(dbOk)) => stats.isRunning
     /\ ~stats'.isRunning => cronJobs' = NoCronJobs]_vars

C16_Witness ==
  /\ ~stats.isRunning
  /\ cronJobs = NoCronJobs
  /\ metricsJob = <<>> /\ cleanupJob = <<>>
  /\ \E r \in Runs : run[r].kind = "timer"
  /\ sweep # NoSweep

\* updateConfig replaces exactly the keys of the partial
C17_Merges ==
  \A newConfig \in ConfigUpdates :
    UpdateConfig(newConfig)
      => \A k \in ConfigKeys :
           config'[k] = IF k \in DOMAIN newConfig THEN newConfig[k] ELSE config[k]

\* The next firing of a running scheduler follows the configured cadences
C17_NextFiringFollowsConfig ==
  /\ metricsJob' # <<>> => metricsJob'[1].cronTime = config'.metricsInterval
  /\ cleanupJob' # <<>> => cleanupJob'[1].cronTime = config'.cleanupInterval

\* A run makes the number of attempts allowed by the maxRetries it was
\* entered with, whatever updateConfig did meanwhile
C17_RunKeepsItsConfig ==
  \A r \in Runs :
    /\ (RunEnds(r) /\ run'[r].ended = "failure") => run'[r].invoked = EnteredWith(r)
    /\ (run'[r].pc = "collecting" /\ run'[r].invoked > run[r].invoked)
         => run'[r].invoked <= run'[r].maxRetries0

\* C17: updateConfig(partial) replaces exactly the keys present in partial
\* and leaves the others unchanged; the new values govern the next scheduled
\* firing and do not alter a run already in progress.
C17_UpdateConfig ==
  [][C17_Merges /\ C17_NextFiringFollowsConfig /\ C17_RunKeepsItsConfig]_vars

\* C18: in every reachable scheduler state isHealthy() is true if and only
\* if a collection has succeeded, the last success is less than 24 hours
\* old and consecutiveErrors is below errorThreshold.
C18_IsHealthy ==
  isHealthy(stats, config, now)
    <=> /\ stats.totalCollections >= 1
        /\ stats.lastSuccessfulCollection # <<>>
        /\ now - stats.lastSuccessfulCollection[1] < 24
        /\ stats.consecutiveErrors < config.errorThreshold

C18_Witness ==
  /\ isHealthy(stats, config, now)
  /\ stats.lastSuccessfulCollection = <<0>> /\ now = 12
  /\ stats.consecutiveErrors = 1

\* C19: when exactly one sub-query of a collection fails, the collection
\* does not abort: a snapshot is stored in which the fields of the failed
\* sub-query hold the fallback value 0.
C19_PartialFailureTolerated ==
  [][(cli.pc = "awaitAll" /\ cli'.pc = "idle" /\ Cardinality(cli'.rejected) = 1)
       => /\ cli'.outcome \in {"stored", "dbError"}
          /\ cli'.metrics # <<>>
          /\ \A q \in cli'.rejected : \A f \in SubQueryFields(q) :
               cli'.metrics[1][f] = Num(0)
          /\ cli'.outcome = "stored" => Cardinality(rows') = Cardinality(rows) + 1]_vars

\* C20: an attempt that fails because validation rejected the snapshot is
\* not retried: the run ends with that attempt, it neither sleeps for a
\* retry nor invokes the collector again.
C20_ValidationNeverRetried ==
  [][\A r \in Runs :
       (AttemptFails(r) /\ run'[r].lastError = <<"invalid">>) => RunEnds(r)]_vars

\* C21: a run that invoked the collector never rejects towards its caller,
\* however its attempts ended; a run that ends in failure shows in the
\* statistics (consecutiveErrors, lastFailedCollection); a run ends in
\* success only in a step that persists the snapshot, and an attempt that
\* settles without a new row (a store failure included) is a failed attempt.
C21_ErrorsStayInside ==
  [][\A r \in Runs :
       /\ (RunEnds(r) /\ run'[r].invoked >= 1) => ~run'[r].rejected
       /\ (RunEnds(r) /\ run'[r].ended = "failure")
            => /\ stats'.consecutiveErrors = stats.consecutiveErrors + 1
               /\ stats'.lastFailedCollection = <<now>>
       /\ (RunEnds(r) /\ run'[r].ended = "success")
            => /\ nextId' = nextId + 1
               /\ \E row \in rows' : row.id = nextId /\ row.date = DateOf(now)
       /\ (run[r].pc = "collecting" /\ run'[r] # run[r] /\ rows' = rows)
            => /\ AttemptFails(r)
               /\ stats'.totalErrors = stats.totalErrors + 1
               /\ stats'.totalCollections = stats.totalCollections
               /\ run'[r].ended # "success"]_vars

C21_Witness ==
  /\ \E r \in Runs : /\ run[r].pc = "idle" /\ run[r].ended = "failure"
                      /\ run[r].invoked = 3 /\ run[r].failed = 3
                      /\ ~run[r].rejected
  /\ stats.consecutiveErrors = 1
  /\ stats.totalCollections = 0
  /\ rows = {}

\* C22: every run eventually returns and leaves the scheduler idle, even
\* when an upstream call never answers.
C22_RunTerminates ==
  \A r \in Runs : [](run[r].pc # "idle" => <>(run[r].pc = "idle"))

\* C23: getHealthStatus answers isHealthy = TRUE iff the table has a row,
\* recordCount is the number of rows, oldestRecord and newestRecord are the
\* earliest and the latest stored date; with the database out of reach it
\* answers the unhealthy zero status.
C23_HealthStatus ==
  /\ \A h \in AdapterGetHealthStatus(rows, TRUE) :
       /\ h.isHealthy <=> rows # {}
       /\ h.recordCount = Cardinality(rows)
       /\ rows # {} => /\ h.oldestRecord = <<SetMin({r.date : r \in rows})>>
                       /\ h.newestRecord = <<SetMax({r.date : r \in rows})>>
       /\ rows = {} => h = UnhealthyStatus
  /\ AdapterGetHealthStatus(rows, FALSE) = {UnhealthyStatus}

\* C24: within one run at most one collector invocation is in flight: the
\* invocations exceed the failed attempts by one exactly while the run is
\* collecting and by none while it sleeps; a further attempt of the same
\* run starts only from a completed sleep that followed a failed attempt;
\* and the step in which an attempt succeeds ends the run.
C24_OneAttemptInFlight ==
  [][\A r \in Runs :
       /\ run'[r].pc = "collecting" => run'[r].invoked = run'[r].failed + 1
       /\ run'[r].pc = "sleeping"
            => /\ run'[r].invoked = run'[r].failed
               /\ Len(run'[r].sleeps) = run'[r].failed
       /\ (run[r].pc # "idle" /\ run'[r].id = run[r].id
             /\ run'[r].invoked > run[r].invoked)
            => /\ run[r].pc = "sleeping"
               /\ run'[r].invoked = run[r].invoked + 1
               /\ run[r].failed = run[r].invoked
               /\ run[r].failed >= 1
       /\ (run[r].pc = "collecting" /\ Cardinality(rows') = Cardinality(rows) + 1
             /\ run'[r] # run[r])
            => RunEnds(r) /\ run'[r].ended = "success"]_vars

C24_Witness ==
  \E r \in Runs : /\ run[r].pc = "collecting"
                   /\ run[r].invoked = 3 /\ run[r].failed = 2
                   /\ Len(run[r].sleeps) = 2

\* C25: stop() leaves a run in flight as it is, and the run goes on while
\* isRunning is false: its pending sleep or attempt can still complete, a
\* completed sleep leads to the next attempt or to the recorded failure, a
\* settled attempt to the recorded success, a sleep or the recorded failure,
\* and isRunning stays false throughout.
C25_StopDoesNotAbort ==
  [][\A r \in Runs :
       /\ (stats.isRunning /\ ~stats'.isRunning) => run' = run
       /\ (~stats.isRunning /\ run[r].pc = "sleeping") => ENABLED SleepDone(r)
       /\ (~stats.isRunning /\ run[r].pc = "collecting")
            => ENABLED (\E resp \in SchedResponses, dbOk \in BOOLEAN :
                          AttemptSettles(r, resp, dbOk))
       /\ (~stats.isRunning /\ run[r].pc # "idle" /\ run'[r] # run[r])
            => /\ ~stats'.isRunning
               /\ run[r].pc = "sleeping"
                    => \/ run'[r].pc = "collecting"
                       \/ RunEnds(r) /\ run'[r].ended = "failure"
               /\ run[r].pc = "collecting"
                    => \/ run'[r].pc = "sleeping"
                          /\ stats'.totalErrors = stats.totalErrors + 1
                       \/ RunEnds(r) /\ run'[r].ended \in {"success", "failure"}
               /\ (RunEnds(r) /\ run'[r].ended = "success")
                    => /\ stats'.totalCollections = stats.totalCollections + 1
                       /\ stats'.consecutiveErrors = 0
                       /\ stats'.lastSuccessfulCollection = <<now>>
               /\ (RunEnds(r) /\ run'[r].ended = "failure")
                    => /\ stats'.consecutiveErrors = stats.consecutiveErrors + 1
                       /\ stats'.lastFailedCollection = <<now>>]_vars

\* A timer-driven run that is past its second failed attempt although the
\* scheduler has been stopped since it began
C25_Witness ==
  /\ ~stats.isRunning
  /\ cronJobs["metrics"] = 0
  /\ \E r \in Runs : /\ run[r].kind = "timer" /\ run[r].pc = "sleeping"
                      /\ run[r].failed = 2

\* C26: getCachedOrFetch answers from the cache, without calling fetchFn,
\* exactly when the key has an unexpired entry; an entry is created or
\* replaced only by the step in which the fetch for that key succeeds, with
\* the fetched data; a failed fetch leaves the cache as it is and its error
\* is returned, not stored.
C26_CacheAfterFetch ==
  [][/\ (req.pc = "idle" /\ req' # req)
       => /\ req'.outcome = "hit"
               <=> (cache[req'.key] # <<>> /\ ~Expired(cache[req'.key][1], dateNow))
          /\ req'.outcome = "hit"
               => /\ req'.calls = 0 /\ req'.pc = "idle" /\ cache' = cache
                  /\ req'.result = <<cache[req'.key][1].data>>
          /\ req'.outcome # "hit" => req'.calls = 1 /\ req'.pc = "fetching"
     /\ (req.pc = "fetching" /\ req'.outcome = "error")
       => cache' = cache /\ req'.result = <<>>
     /\ \A k \in Keys :
          (cache'[k] # <<>> /\ cache'[k] # cache[k])
            => /\ req.pc = "fetching" /\ req.key = k
               /\ req'.outcome = "fetched"
               /\ cache'[k][1].data = req'.result[1]]_vars

\* A fetch has failed for a key that has no entry, and none was made
C26_Witness ==
  /\ req.pc = "idle" /\ req.outcome = "error" /\ req.key \in Keys
  /\ cache[req.key] = <<>>
  /\ \E k \in Keys : cache[k] # <<>>

\* C27: a rejection of the collector's cleanupOldMetrics inside the
\* scheduler's cleanup pass is caught and logged: no unhandled rejection
\* escapes, and statistics, configuration and table are left as they were.
C27_CleanupFailureCaught ==
  [][(sweep' # sweep /\ sweep'.failed)
       => /\ sweep'.logged
          /\ ~sweep'.unhandled
          /\ stats' = stats /\ config' = config /\ rows' = rows]_vars

\* get() and canRefresh() on a cache file f at time t are as C28 says: get
\* returns the data iff f was stored within the clock hour of t, canRefresh
\* holds iff there is no file or it was stored before the top of that hour,
\* and exactly one of the two holds
HourlyAnswers(f, t) ==
  /\ FileGet(f, t) # <<>>
       <=> (f # <<>> /\ f[1].lastRefresh \div MinutesPerHour = t \div MinutesPerHour)
  /\ f # <<>> /\ FileGet(f, t) # <<>> => FileGet(f, t) = <<f[1].data>>
  /\ FileCanRefresh(f, t)
       <=> (f = <<>> \/ f[1].lastRefresh < t - (t % MinutesPerHour))
  /\ FileGet(f, t) # <<>> <=> ~FileCanRefresh(f, t)

\* C28: get() and canRefresh() answer by the clock hour and exclude each
\* other in every state; the refresh endpoint deletes a cache file only in
\* a state where canRefresh() is true, and its 429 answer leaves the file
\* as it is; data stored in the current clock hour is never replaced or
\* removed within that hour (at most one refresh per hour).
C28_HourlyRefresh ==
  [][/\ HourlyAnswers(file, clock) /\ HourlyAnswers(file', clock')
     /\ (file # <<>> /\ file' = <<>>) => FileCanRefresh(file, clock)
     /\ (post' # post /\ post'.status = 429 /\ post'.pc = "idle" /\ post.pc = "idle")
          => file' = file /\ ~FileCanRefresh(file, clock)
     /\ (file' # file /\ file' # <<>>) => FileGet(file, clock) = <<>>]_vars

\* C29: under every configuration updateConfig can install, a run that
\* records a failure has invoked the collector at least once, every
\* invocation failed, and the alert it may send has an error to report
\* (sendErrorAlert is never entered with a null error).
C29_FailureHasAnError ==
  [][\A r \in Runs :
       (RunEnds(r) /\ run'[r].ended = "failure")
         => /\ run'[r].invoked >= 1
            /\ run'[r].failed = run'[r].invoked
            /\ ~run'[r].rejected]_vars

\* Some run ends in this step in the given way
SomeRunEnds(how) == \E r \in Runs : RunEnds(r) /\ run'[r].ended = how

\* C30: with runs overlapping, every step keeps the counters in line with
\* what happened in it: totalCollections grows by one exactly when a run
\* ends in success, totalErrors by one exactly when an attempt fails,
\* consecutiveErrors becomes 0 when a run ends in success, grows by one when
\* a run ends in failure and is otherwise kept; no counter is negative.
C30_CountersConsistent ==
  [][/\ stats'.totalCollections =
          stats.totalCollections + (IF SomeRunEnds("success") THEN 1 ELSE 0)
     /\ stats'.totalErrors =
          stats.totalErrors + (IF \E r \in Runs : AttemptFails(r) THEN 1 ELSE 0)
     /\ stats'.consecutiveErrors =
          IF SomeRunEnds("success") THEN 0
          ELSE IF SomeRunEnds("failure") THEN stats.consecutiveErrors + 1
          ELSE stats.consecutiveErrors
     /\ stats'.totalCollections >= 0 /\ stats'.totalErrors >= 0
     /\ stats'.consecutiveErrors >= 0]_vars

\* Two runs overlapped and both ended in failure
C30_Witness ==
  /\ \A r \in Runs : run[r].pc = "idle" /\ run[r].ended = "failure" /\ run[r].failed = 3
  /\ stats.totalErrors = 6
  /\ stats.consecutiveErrors = 2
  /\ stats.totalCollections = 0

====
